---------------------------- MODULE Spec2Model ----------------------------
(***************************************************************************)
(* A model of torchvision/edgeailite/xvision/datasets/tiscapes_plus.py:    *)
(* the COCO-style segmentation dataset TIScapeSegmentation, its wrapper    *)
(* TIScapeSegmentationPlus, the factory tiscape_segmentation with          *)
(* write_to_jsonfile, and the colour helpers decode_segmap/encode_segmap.  *)
(*                                                                         *)
(* An image is a flat row of pixels.  An annotation record                 *)
(* carries image_id, category_id, area and the set of pixels its polygon   *)
(* rasterises to (the rasteriser itself is pycocotools, outside the        *)
(* repository).  None is written as the record NoneArg.                    *)
(***************************************************************************)
EXTENDS Integers, Sequences, FiniteSets, TLC

VARIABLES
    tiscape_dataset,  \* self.tiscape_dataset: [imgs: the keys of the COCO imgs dict, in order; anns: the annotation records]
    args,             \* the arguments the constructor was called with
    categories,       \* self.categories, range(1, num_classes+1) as a sequence
    num_classes_,     \* TIScapeSegmentationPlus.num_classes_ (0 for the base class)
    img_ids,          \* self.img_ids
    imgs,             \* self.imgs
    num_imgs,         \* self.num_imgs
    pc,               \* where the program is
    ret,              \* what the last call returned
    hist,             \* history: the object at the end of construction, the first sample of each index
    fs,               \* the annotations directory: file name -> file
    fs0,              \* history: the directory before the first factory call
    colors            \* the colour state of the Plus object and the segmentation maps at hand

vars == <<tiscape_dataset, args, categories, num_classes_, img_ids, imgs,
          num_imgs, pc, ret, hist, fs, fs0, colors>>

dsVars == <<tiscape_dataset, args, categories, num_classes_, img_ids, imgs, num_imgs>>

-----------------------------------------------------------------------------
(* Bounds of the model *)

NumImages == 2
MaxClasses == 5
MaxDocs == 2

(* Program constants *)

DEFAULT_NUM_CLASSES == 4
NUM_CLASSES == 4
AREA_THRESHOLD == 1000
ignore_index == 255
UINT8 == 256

-----------------------------------------------------------------------------
(* Python helpers *)

NoneArg == [isNone |-> TRUE, v |-> 0]

Some(x) == [isNone |-> FALSE, v |-> x]

Min(a, b) == IF a < b THEN a ELSE b

\* range(a, b) as a sequence
Range(a, b) == [i \in 1..(IF b > a THEN b - a ELSE 0) |-> a + i - 1]

\* x in seq
InSeq(x, s) == \E i \in 1..Len(s) : s[i] = x

\* list.index / range.index (0-based position of the first x); called only when x is in s
SeqIndex(s, x) == (CHOOSE i \in 1..Len(s) : s[i] = x /\ \A j \in 1..(i-1) : s[j] # x) - 1

\* s[:n] for n >= 0
Prefix(s, n) == SubSeq(s, 1, Min(n, Len(s)))

\* sum(obj["area"] for obj in anno)
RECURSIVE SumArea(_)
SumArea(anno) == IF anno = <<>> THEN 0 ELSE anno[1].area + SumArea(Tail(anno))

Perms(n) == {p \in [1..n -> 1..n] : \A i, j \in 1..n : p[i] = p[j] => i = j}

\* an image is a row of two pixels
Pixels == {1, 2}

ImgIds == 1..NumImages

\* the file_name of an image record
FileName(id) == <<"img", id>>

-----------------------------------------------------------------------------
(* pycocotools.COCO, as the dataset uses it *)

\* getImgIds(): the keys of the imgs dict
getImgIds(ds) == ds.imgs

\* loadAnns(getAnnIds(imgIds=img_id, iscrowd=None)): the records of one image, in file order
loadAnns(ds, img_id) == SelectSeq(ds.anns, LAMBDA a : a.image_id = img_id)

-----------------------------------------------------------------------------
(* TIScapeSegmentation *)

\* bool(range): an empty range is falsy
Truthy(s) == Len(s) > 0

\* [obj for obj in anno if obj["category_id"] in self.categories]
FilterCategories(anno, cats) == SelectSeq(anno, LAMBDA a : InSeq(a.category_id, cats))

_has_valid_annotation(anno) ==
    IF Len(anno) = 0 THEN FALSE
    ELSE SumArea(anno) > AREA_THRESHOLD

\* whether _remove_images_without_annotations keeps img_id
KeepsImage(ds, cats, img_id) ==
    LET anno0 == loadAnns(ds, img_id)
        anno  == IF Truthy(cats) THEN FilterCategories(anno0, cats) ELSE anno0
    IN  _has_valid_annotation(anno)

_remove_images_without_annotations(ds, cats, ids) ==
    SelectSeq(ids, LAMBDA id : KeepsImage(ds, cats, id))

\* random.seed(int(shuffle)); random.shuffle(ids): some permutation p of the list
Shuffle(ids, p) == [i \in 1..Len(ids) |-> ids[p[i]]]

\* a slip in the slice: one image too many
TruncateOneMore(ids, n) == Prefix(ids, n + 1)

\* self.img_ids[:num_imgs]
Truncate(ids, n) == Prefix(ids, n)

\* os.path.join(image_dir, img['file_name']) for the image loadImgs([img_id]) returns
ImagePath(img_id) == <<"image_dir", FileName(img_id)>>

\* the ids _remove_images_without_annotations leaves, for the constructor's num_classes
ValidIds(ds, num_classes) ==
    LET nc == IF num_classes.isNone THEN DEFAULT_NUM_CLASSES ELSE num_classes.v
    IN  _remove_images_without_annotations(ds, Range(1, nc + 1), getImgIds(ds))

\* the body of TIScapeSegmentation.__init__ once the COCO file is loaded;
\* p is the permutation random.shuffle applies
BaseInit(ds, num_classes, shuffle, p, numimgs) ==
    LET nc   == IF num_classes.isNone THEN DEFAULT_NUM_CLASSES ELSE num_classes.v
        cats == Range(1, nc + 1)
        ids0 == _remove_images_without_annotations(ds, cats, getImgIds(ds))
        ids1 == IF shuffle THEN Shuffle(ids0, p) ELSE ids0
        ids2 == IF numimgs.isNone THEN ids1 ELSE Truncate(ids1, numimgs.v)
        dsi  == IF numimgs.isNone THEN ds.imgs ELSE ids2
        paths == [i \in 1..Len(ids2) |-> ImagePath(ids2[i])]
    IN  [categories |-> cats, img_ids |-> ids2, imgs |-> paths, num_imgs |-> Len(paths),
         ds |-> [ds EXCEPT !.imgs = dsi]]

\* a slip in the remap: the 0-based index, without the + 1
_filter_and_remap_zero_based(ds, anno0, cats, remap) ==
    LET anno == FilterCategories(anno0, cats)
    IN  IF ~remap THEN [anno |-> anno, ds |-> ds]
        ELSE [anno |-> [i \in 1..Len(anno) |->
                          [anno[i] EXCEPT !.category_id = SeqIndex(cats, @)]],
              ds |-> ds]

\* a slip in the remap: no deep copy, so the 0-based index is written into the
\* records of the annotation store
_filter_and_remap_in_place(ds, anno0, cats, remap) ==
    LET anno == FilterCategories(anno0, cats)
        hit(k) == \E i \in 1..Len(anno) : anno[i].id = k
    IN  IF ~remap THEN [anno |-> anno, ds |-> ds]
        ELSE [anno |-> [i \in 1..Len(anno) |->
                          [anno[i] EXCEPT !.category_id = SeqIndex(cats, @)]],
              ds |-> [ds EXCEPT !.anns = [k \in DOMAIN ds.anns |->
                        IF hit(k) THEN [ds.anns[k] EXCEPT !.category_id = SeqIndex(cats, @)]
                        ELSE ds.anns[k]]]]

\* _filter_and_remap_categories(image, anno, remap): the list it returns and the
\* annotation store afterwards (the records are remapped on a deep copy)
_filter_and_remap_categories(ds, anno0, cats, remap) ==
    LET anno == FilterCategories(anno0, cats)
    IN  IF ~remap THEN [anno |-> anno, ds |-> ds]
        ELSE [anno |-> [i \in 1..Len(anno) |->
                          [anno[i] EXCEPT !.category_id = SeqIndex(cats, @) + 1]],
              ds |-> ds]

\* _convert_poly_to_mask: one uint8 0/1 mask per instance
_convert_poly_to_mask(segmentations) ==
    [k \in 1..Len(segmentations) |-> [p \in Pixels |-> IF p \in segmentations[k] THEN 1 ELSE 0]]

RECURSIVE SeqMax(_)
SeqMax(s) == IF Len(s) = 1 THEN s[1]
             ELSE LET m == SeqMax(Tail(s)) IN IF s[1] > m THEN s[1] ELSE m

\* a slip in the merge: instances painted in order, the last one wins
MergeMasksLastWins(masks, cats) ==
    [p \in Pixels |->
       LET on == {k \in 1..Len(masks) : masks[k][p] = 1}
       IN  IF on = {} THEN 0 ELSE cats[CHOOSE k \in on : \A j \in on : j <= k]]

\* (masks * cats).max(axis=0) on uint8 arrays
MergeMasks(masks, cats) ==
    [p \in Pixels |-> SeqMax([k \in 1..Len(masks) |-> (masks[k][p] * cats[k]) % UINT8])]

_convert_polys_to_mask(anno) ==
    LET segmentations == [k \in 1..Len(anno) |-> anno[k].segmentation]
        cats          == [k \in 1..Len(anno) |-> anno[k].category_id % UINT8]
    IN  IF Len(segmentations) > 0
        THEN MergeMasks(_convert_poly_to_mask(segmentations), cats)
        ELSE [p \in Pixels |-> 0]

\* TIScapeSegmentation.__getitem__(idx, with_label=True); idx is 1-based here
BaseGetItem(ds, cats, ids, paths, idx) ==
    LET anno0 == loadAnns(ds, ids[idx])
        fr    == _filter_and_remap_categories(ds, anno0, cats, TRUE)
    IN  [image |-> paths[idx], anno |-> fr.anno, target |-> _convert_polys_to_mask(fr.anno),
         ds |-> fr.ds]

-----------------------------------------------------------------------------
(* TIScapeSegmentationPlus *)

\* the num_classes TIScapeSegmentationPlus.__init__ hands to the base class
SuperNumClasses(num_classes) == IF num_classes = 4 THEN num_classes ELSE NUM_CLASSES

\* [array] == x and [array] != x: a list compared with an int
ListEqScalar(lst, x) == FALSE

ListNeScalar(lst, x) == TRUE

\* a[b] = val for a Python bool b: all of the array when b, nothing otherwise
SetItemBool(a, b, val) == IF b THEN [p \in DOMAIN a |-> val % UINT8] ELSE a

\* a slip in the dtype: the subtraction on a signed, wider array does not wrap
ISubBoolWide(a, b, k) == IF b THEN [p \in DOMAIN a |-> a[p] - k] ELSE a

\* a[b] -= k for a Python bool b, on a uint8 array
ISubBool(a, b, k) == IF b THEN [p \in DOMAIN a |-> (a[p] - k) % UINT8] ELSE a

\* the two lines that follow the transforms in TIScapeSegmentationPlus.__getitem__
ShiftLabels(target) ==
    LET t0 == target[1]
        t1 == SetItemBool(t0, ListEqScalar(target, 0), ignore_index)
        t2 == ISubBool(t1, ListNeScalar(<<t1>>, ignore_index), 1)
    IN  <<t2>>

\* TIScapeSegmentationPlus.__getitem__(item) with transforms=None
PlusGetItem(ds, cats, ids, paths, idx) ==
    LET b == BaseGetItem(ds, cats, ids, paths, idx)
    IN  [image |-> <<b.image>>, anno |-> b.anno, merged |-> b.target,
         target |-> ShiftLabels(<<b.target>>), ds |-> b.ds]

\* xnn.utils.get_color_palette(n): a list of n pairwise distinct colours, black
\* first (the corners of the colour cube, blue fastest)
get_color_palette(n) ==
    [i \in 1..n |-> << 128 * (((i - 1) \div 4) % 2), 128 * (((i - 1) \div 2) % 2), 128 * ((i - 1) % 2) >>]

\* list * k
Repeat(lst, k) == [i \in 1..(Len(lst) * k) |-> lst[((i - 1) % Len(lst)) + 1]]

\* lst[a:b] for 0 <= a <= b
Slice(lst, a, b) == SubSeq(lst, a + 1, Min(b, Len(lst)))

\* a slip in the slice: the palette taken from its first entry
PlusColorsFromZero(num_classes) ==
    Slice(Repeat(get_color_palette(num_classes + 1), num_classes), 0, num_classes)

\* self.colors after TIScapeSegmentationPlus.__init__
PlusColors(num_classes) ==
    Slice(Repeat(get_color_palette(num_classes + 1), num_classes), 1, num_classes + 1)

\* self.label_colours = dict(zip(range(num_classes_), colors))
LabelColours(num_classes, cols) ==
    [l \in 0..(Min(num_classes, Len(cols)) - 1) |-> cols[l + 1]]

\* self.class_map = dict(zip(valid_classes, range(1, num_classes_+1)))
ClassMap(num_classes) ==
    [c \in 1..num_classes |-> Range(1, num_classes + 1)[c]]

\* the loop of decode_segmap on one channel: r[temp == l] = label_colours[l][ch],
\* for l = from .. num_classes-1, on an array of temp's dtype (uint8)
RECURSIVE DecodeChannel(_, _, _, _, _, _)
DecodeChannel(r, temp, lc, ch, from, num_classes) ==
    IF from >= num_classes THEN r
    ELSE DecodeChannel([p \in DOMAIN r |-> IF temp[p] = from THEN lc[from][ch] % UINT8 ELSE r[p]],
                       temp, lc, ch, from + 1, num_classes)

\* x / 255.0, kept as the fraction
Div255(x) == <<x, 255>>

\* decode_segmap(temp): the rgb array, one <<r, g, b>> per pixel
decode_segmap(temp, lc, num_classes) ==
    LET r == DecodeChannel(temp, temp, lc, 1, 0, num_classes)
        g == DecodeChannel(temp, temp, lc, 2, 0, num_classes)
        b == DecodeChannel(temp, temp, lc, 3, 0, num_classes)
    IN  [p \in DOMAIN temp |-> <<Div255(r[p]), Div255(g[p]), Div255(b[p])>>]

\* the second loop of encode_segmap: mask[mask == c] = class_map[c] for c = from .. num_classes
RECURSIVE EncodeValid(_, _, _, _)
EncodeValid(mask, cm, from, num_classes) ==
    IF from > num_classes THEN mask
    ELSE EncodeValid([p \in DOMAIN mask |-> IF mask[p] = from THEN cm[from] ELSE mask[p]],
                     cm, from + 1, num_classes)

\* encode_segmap(mask); void_classes is empty, so its first loop does nothing
encode_segmap(mask, cm, num_classes) == EncodeValid(mask, cm, 1, num_classes)

-----------------------------------------------------------------------------
(* The object under test: construction and sample access *)

Unused == [op |-> "none"]

NoSample == [n |-> 0, target |-> <<>>]

Built(o) == <<o.ds, o.img_ids, o.imgs, o.num_imgs>>

SetObject(o, a, nc_) ==
    /\ tiscape_dataset' = o.ds
    /\ categories' = o.categories
    /\ img_ids' = o.img_ids
    /\ imgs' = o.imgs
    /\ num_imgs' = o.num_imgs
    /\ args' = a
    /\ num_classes_' = nc_
    /\ hist' = [built |-> Built(o), first |-> [i \in 1..o.num_imgs |-> NoSample]]
    /\ ret' = Unused
    /\ pc' = "constructed"

\* TIScapeSegmentation(root, split, shuffle, num_imgs, num_classes)
ConstructBase(num_classes, shuffle, numimgs) ==
    /\ pc = "new"
    /\ \E p \in Perms(Len(ValidIds(tiscape_dataset, num_classes))) :
         /\ shuffle \/ \A i \in DOMAIN p : p[i] = i
         /\ SetObject(BaseInit(tiscape_dataset, num_classes, shuffle, p, numimgs),
                      [cls |-> "base", num_classes |-> num_classes, shuffle |-> shuffle,
                       num_imgs |-> numimgs], 0)
    /\ colors' = Unused
    /\ UNCHANGED <<fs, fs0>>

\* TIScapeSegmentationPlus(root, split, num_classes=N, shuffle, num_imgs)
ConstructPlus(num_classes, shuffle, numimgs) ==
    /\ pc = "new"
    /\ LET sup == Some(SuperNumClasses(num_classes))
       IN  \E p \in Perms(Len(ValidIds(tiscape_dataset, sup))) :
             /\ shuffle \/ \A i \in DOMAIN p : p[i] = i
             /\ SetObject(BaseInit(tiscape_dataset, sup, shuffle, p, numimgs),
                          [cls |-> "plus", num_classes |-> Some(num_classes),
                           shuffle |-> shuffle, num_imgs |-> numimgs], num_classes)
    /\ colors' = [op |-> "plus", colors |-> PlusColors(num_classes),
                  label_colours |-> LabelColours(num_classes, PlusColors(num_classes)),
                  class_map |-> ClassMap(num_classes), seg |-> Unused]
    /\ UNCHANGED <<fs, fs0>>

Seen(h, idx, target) ==
    [h EXCEPT !.first[idx] = IF @.n = 0 THEN [n |-> 1, target |-> target]
                             ELSE [@ EXCEPT !.n = 2]]

\* dataset[idx] on a TIScapeSegmentation
GetItemBase(idx) ==
    /\ pc = "constructed" /\ args.cls = "base"
    /\ idx \in 1..num_imgs
    /\ LET r == BaseGetItem(tiscape_dataset, categories, img_ids, imgs, idx)
       IN  /\ tiscape_dataset' = r.ds
           /\ ret' = [op |-> "getitem", idx |-> idx, image |-> r.image, anno |-> r.anno,
                      merged |-> r.target, target |-> r.target]
           /\ hist' = Seen(hist, idx, r.target)
    /\ UNCHANGED <<args, categories, num_classes_, img_ids, imgs, num_imgs, pc, fs, fs0, colors>>

\* dataset[idx] on a TIScapeSegmentationPlus
GetItemPlus(idx) ==
    /\ pc = "constructed" /\ args.cls = "plus"
    /\ idx \in 1..num_imgs
    /\ LET r == PlusGetItem(tiscape_dataset, categories, img_ids, imgs, idx)
       IN  /\ tiscape_dataset' = r.ds
           /\ ret' = [op |-> "getitem", idx |-> idx, image |-> r.image, anno |-> r.anno,
                      merged |-> r.merged, target |-> r.target[1]]
           /\ hist' = Seen(hist, idx, r.target[1])
    /\ UNCHANGED <<args, categories, num_classes_, img_ids, imgs, num_imgs, pc, fs, fs0, colors>>

\* TIScapeSegmentation.__getitem__(idx, with_label=False)
GetItemNoLabel(idx) ==
    /\ pc = "constructed"
    /\ idx \in 1..num_imgs
    /\ ret' = [op |-> "path", idx |-> idx, path |-> imgs[idx]]
    /\ UNCHANGED <<dsVars, pc, hist, fs, fs0, colors>>

\* len(dataset)
LenCall ==
    /\ pc = "constructed"
    /\ ret' = [op |-> "len", n |-> num_imgs]
    /\ UNCHANGED <<dsVars, pc, hist, fs, fs0, colors>>

\* TIScapeSegmentationPlus.num_classes()
NumClassesCall ==
    /\ pc = "constructed" /\ args.cls = "plus"
    /\ ret' = [op |-> "num_classes", nc |-> <<num_classes_>>]
    /\ UNCHANGED <<dsVars, pc, hist, fs, fs0, colors>>

-----------------------------------------------------------------------------
(* Annotation files the specifications start from *)

Record(img, cat, area, seg) ==
    [image_id |-> img, category_id |-> cat, area |-> area, segmentation |-> seg]

Lists(R, n) == UNION {[1..k -> R] : k \in 0..n}

Dataset(anns) ==
    [imgs |-> [i \in 1..NumImages |-> i],
     anns |-> [i \in 1..Len(anns) |->
                 [id |-> i, image_id |-> anns[i].image_id, category_id |-> anns[i].category_id,
                  area |-> anns[i].area, segmentation |-> anns[i].segmentation]]]

NewObject ==
    /\ args = Unused /\ categories = <<>> /\ num_classes_ = 0
    /\ img_ids = <<>> /\ imgs = <<>> /\ num_imgs = 0
    /\ pc = "new" /\ ret = Unused /\ hist = Unused /\ colors = Unused
    /\ fs = Unused /\ fs0 = Unused

\* construction: areas around the threshold, categories inside and outside the permitted set
CtorRecords ==
    {Record(i, c, a, {1}) : i \in ImgIds, c \in {1, 2}, a \in {500, 1001}}

CtorNumClasses == {NoneArg, Some(0), Some(1), Some(2)}

CtorNumImgs == {NoneArg} \cup {Some(n) : n \in 0..(NumImages + 1)}

InitCtor ==
    /\ tiscape_dataset \in {Dataset(l) : l \in Lists(CtorRecords, 3)}
    /\ NewObject

NextCtor ==
    \/ \E nc \in CtorNumClasses, sh \in BOOLEAN, n \in CtorNumImgs : ConstructBase(nc, sh, n)
    \/ \E idx \in 1..NumImages : GetItemNoLabel(idx)
    \/ LenCall

SpecCtor == InitCtor /\ [][NextCtor]_vars

\* sample access: every image large enough, instances that overlap
Shapes == (SUBSET Pixels) \ {{}}

ItemRecords ==
    {Record(i, c, 1001, s) : i \in ImgIds, c \in 1..(NUM_CLASSES + 1), s \in Shapes}

InitItem ==
    /\ tiscape_dataset \in {Dataset(l) : l \in Lists(ItemRecords, 2)}
    /\ NewObject

NextItem ==
    \/ \E nc \in 1..MaxClasses : ConstructBase(Some(nc), FALSE, NoneArg)
    \/ \E nc \in 1..MaxClasses : ConstructPlus(nc, FALSE, NoneArg)
    \/ \E idx \in 1..NumImages : GetItemBase(idx)
    \/ \E idx \in 1..NumImages : GetItemPlus(idx)
    \/ NumClassesCall

SpecItem == InitItem /\ [][NextItem]_vars

-----------------------------------------------------------------------------
(* Properties of construction (SpecCtor) *)

\* the permitted category ids of the object: the members of self.categories
Permitted == {categories[i] : i \in 1..Len(categories)}

AnnsOf(id) == SelectSeq(tiscape_dataset.anns, LAMBDA a : a.image_id = id)

PermittedAnnsOf(id) == SelectSeq(AnnsOf(id), LAMBDA a : a.category_id \in Permitted)

InDataset(id) == \E i \in 1..Len(img_ids) : img_ids[i] = id

\* C2: after construction an image id is in the dataset only if its annotations
\* with a permitted category are non-empty and their areas sum to more than
\* 1000; every image whose total annotated area is at most 1000 is excluded.
C2_RetainedOnlyIfValid ==
    pc = "constructed" =>
        \A id \in ImgIds :
            /\ InDataset(id) =>
                 /\ PermittedAnnsOf(id) # <<>>
                 /\ SumArea(PermittedAnnsOf(id)) > 1000
            /\ SumArea(AnnsOf(id)) <= 1000 => ~InDataset(id)

\* the images that pass the validity filter
ValidSet == {id \in ImgIds : KeepsImage([tiscape_dataset EXCEPT !.imgs = [i \in 1..NumImages |-> i]],
                                        categories, id)}

\* C10: the dataset holds min(num_imgs, V) images (V when num_imgs is None), V
\* the number of images passing the validity filter; its ids are distinct and
\* valid; imgs is index-aligned with img_ids; len() reports that length.
C10_LengthAndAlignment ==
    pc = "constructed" =>
        /\ num_imgs = IF args.num_imgs.isNone THEN Cardinality(ValidSet)
                      ELSE Min(args.num_imgs.v, Cardinality(ValidSet))
        /\ Len(img_ids) = num_imgs /\ Len(imgs) = num_imgs
        /\ \A i, j \in 1..Len(img_ids) : img_ids[i] = img_ids[j] => i = j
        /\ \A i \in 1..Len(img_ids) : img_ids[i] \in ValidSet
        /\ \A i \in 1..Len(img_ids) : imgs[i] = <<"image_dir", <<"img", img_ids[i]>> >>
        /\ ret.op = "len" => ret.n = num_imgs
        /\ ret.op = "path" => ret.path = <<"image_dir", <<"img", img_ids[ret.idx]>> >>

\* a shuffled dataset cut to one image out of two valid ones, the second one first
C10_Witness ==
    /\ pc = "constructed" /\ args.shuffle /\ ~args.num_imgs.isNone /\ args.num_imgs.v = 1
    /\ Cardinality(ValidSet) = 2 /\ img_ids = <<2>> /\ ret.op = "len"

-----------------------------------------------------------------------------
(* Properties of sample access (SpecItem) *)

\* C1: every pixel of the merged mask of a Plus sample is in 0..N and every
\* pixel of the returned mask is 255 or in 0..N-1, N the configured class count.
C1_MaskRange ==
    (ret.op = "getitem" /\ args.cls = "plus") =>
        \A p \in Pixels :
            /\ ret.merged[p] \in 0..num_classes_
            /\ ret.target[p] \in {255} \cup 0..(num_classes_ - 1)

C5_MergeIsMax ==
    ret.op = "getitem" =>
        \A p \in Pixels :
            LET over == {k \in 1..Len(ret.anno) : p \in ret.anno[k].segmentation}
            IN  IF over = {} THEN ret.merged[p] = 0
                ELSE /\ \E k \in over : ret.merged[p] = ret.anno[k].category_id
                     /\ \A k \in over : ret.merged[p] >= ret.anno[k].category_id

\* category 3 listed before category 2, both on pixel 1, one only on pixel 2
C5_Witness ==
    /\ ret.op = "getitem" /\ Len(ret.anno) = 2
    /\ ret.anno[1].category_id = 3 /\ ret.anno[2].category_id = 2
    /\ ret.anno[1].segmentation = {1} /\ ret.anno[2].segmentation = {1, 2}
    /\ ret.merged[1] = 3 /\ ret.merged[2] = 2

\* the remapped id _filter_and_remap_categories gives an annotation of category c
\* (<<>> when it drops the annotation)
RemapOf(c) ==
    LET out == _filter_and_remap_categories(tiscape_dataset,
                   <<[id |-> 1, image_id |-> 1, category_id |-> c, area |-> 1001,
                      segmentation |-> {1}]>>, categories, TRUE).anno
    IN  [i \in 1..Len(out) |-> out[i].category_id]

\* C6: the remap sends a permitted id to its 0-based position in the permitted
\* list plus 1, a bijection of the permitted set onto 1..N; annotations with
\* another id are dropped; the other fields of a kept annotation are unchanged.
C6_RemapBijection ==
    pc = "constructed" =>
        LET N == Len(categories)
        IN  /\ \A c \in Permitted : Len(RemapOf(c)) = 1
            /\ {RemapOf(c)[1] : c \in Permitted} = 1..N
            /\ \A c \in Permitted : categories[RemapOf(c)[1]] = c
            /\ \A c, d \in Permitted : RemapOf(c) = RemapOf(d) => c = d
            /\ \A c \in (0..(MaxClasses + 2)) \ Permitted : RemapOf(c) = <<>>
            /\ ret.op = "getitem" =>
                 LET kept == PermittedAnnsOf(img_ids[ret.idx])
                 IN  /\ Len(ret.anno) = Len(kept)
                     /\ \A i \in 1..Len(kept) :
                          /\ ret.anno[i].category_id \in 1..N
                          /\ categories[ret.anno[i].category_id] = kept[i].category_id
                          /\ ret.anno[i].segmentation = kept[i].segmentation
                          /\ ret.anno[i].id = kept[i].id

\* a sample of an image with one annotation kept and one dropped
C6_Witness ==
    /\ ret.op = "getitem" /\ Len(categories) >= 2
    /\ Len(AnnsOf(img_ids[ret.idx])) = 2 /\ Len(ret.anno) = 1

\* C9: after any calls of __getitem__ the annotation records, img_ids, imgs and
\* the length are those of the end of construction, and a sample of an index
\* equals the first sample of that index.
C9_GetItemFrame ==
    pc = "constructed" =>
        /\ <<tiscape_dataset, img_ids, imgs, num_imgs>> = hist.built
        /\ ret.op = "getitem" => ret.target = hist.first[ret.idx].target

\* a Plus index fetched again after the other index was fetched
C9_Witness ==
    /\ ret.op = "getitem" /\ args.cls = "plus" /\ num_imgs = 2
    /\ hist.first[ret.idx].n = 2
    /\ \E j \in 1..num_imgs : j # ret.idx /\ hist.first[j].n >= 1

-----------------------------------------------------------------------------
(* The colour helpers (SpecColor) *)

\* a class-index mask comes to hand (a prediction, a decoded label)
LoadSegmap(m) ==
    /\ pc = "constructed" /\ args.cls = "plus"
    /\ colors' = [colors EXCEPT !.seg = [op |-> "seg", orig |-> m, mask |-> m,
                                         encoded |-> FALSE, rgb0 |-> <<>>, rgb |-> <<>>,
                                         reencoded |-> FALSE]]
    /\ UNCHANGED <<dsVars, pc, ret, hist, fs, fs0>>

\* rgb = dataset.decode_segmap(mask)
DecodeSegmap ==
    /\ pc = "constructed" /\ args.cls = "plus" /\ colors.seg.op = "seg"
    /\ LET rgb == decode_segmap(colors.seg.mask, colors.label_colours, num_classes_)
       IN  colors' = [colors EXCEPT !.seg.rgb = rgb,
                                    !.seg.rgb0 = IF @ = <<>> THEN rgb ELSE @,
                                    !.seg.reencoded = colors.seg.encoded]
    /\ UNCHANGED <<dsVars, pc, ret, hist, fs, fs0>>

\* mask = dataset.encode_segmap(mask), in place
EncodeSegmap ==
    /\ pc = "constructed" /\ args.cls = "plus" /\ colors.seg.op = "seg"
    /\ colors' = [colors EXCEPT !.seg.mask = encode_segmap(@, colors.class_map, num_classes_),
                                !.seg.encoded = TRUE]
    /\ UNCHANGED <<dsVars, pc, ret, hist, fs, fs0>>

InitColor ==
    /\ tiscape_dataset = Dataset(<<>>)
    /\ NewObject

NextColor ==
    \/ \E nc \in 1..MaxClasses : ConstructPlus(nc, FALSE, NoneArg)
    \/ \E m \in [Pixels -> 0..(num_classes_ - 1)] : LoadSegmap(m)
    \/ DecodeSegmap
    \/ EncodeSegmap
    \/ NumClassesCall

SpecColor == InitColor /\ [][NextColor]_vars

-----------------------------------------------------------------------------
(* The factory and the annotation files (SpecFactory) *)

\* A file of the annotations directory is absent, or holds a sequence of JSON
\* documents and is readable and writable or not for the process.
Absent == [present |-> FALSE, docs |-> <<>>, r |-> FALSE, w |-> FALSE]

File(docs, r, w) == [present |-> TRUE, docs |-> docs, r |-> r, w |-> w]

\* the annotations a JSON document holds
DocDataset(doc) ==
    CASE doc = "instances_train" -> Dataset(<<Record(1, 1, 1001, {1}), Record(2, 2, 1001, {2})>>)
      [] doc = "instances_val"   -> Dataset(<<Record(1, 3, 1001, {1, 2})>>)
      [] OTHER                   -> Dataset(<<Record(2, 4, 1001, {1})>>)

\* dataset_split(<prefix>_sorted.json, 0.2): the train and the val instances
dataset_split == [train |-> "instances_train", val |-> "instances_val"]

\* get_config().merge_from(dataset_config).num_classes
ConfigNumClasses(cfg) == IF cfg.isNone THEN 4 ELSE cfg.v

\* write_to_jsonfile(path, filename, data): the directory afterwards and the exception raised
write_to_jsonfile(dir, filename, data) ==
    LET f == dir[filename]
    IN  IF f.present /\ f.r THEN [fs |-> dir, exc |-> "none"]
        ELSE IF ~f.present
             THEN [fs |-> [dir EXCEPT ![filename] = File(<<data>>, TRUE, TRUE)], exc |-> "none"]
        ELSE IF f.w
             THEN [fs |-> [dir EXCEPT ![filename] = [f EXCEPT !.docs = Append(@, data)]],
                   exc |-> "none"]
        ELSE [fs |-> dir, exc |-> "PermissionError"]

\* TIScapeSegmentationPlus(root, split, num_classes=nc, ...) from the files:
\* the object, or the exception that ends the construction
PlusFromFile(hasdir, dir, split, nc) ==
    IF ~hasdir THEN [exc |-> "AssertionError", obj |-> Unused]
    ELSE IF ~dir[split].present THEN [exc |-> "FileNotFoundError", obj |-> Unused]
    ELSE IF ~dir[split].r THEN [exc |-> "PermissionError", obj |-> Unused]
    ELSE IF Len(dir[split].docs) # 1 THEN [exc |-> "JSONDecodeError", obj |-> Unused]
    ELSE LET o == BaseInit(DocDataset(dir[split].docs[1]), Some(SuperNumClasses(nc)),
                           FALSE, <<>>, NoneArg)
         IN  [exc |-> "none",
              obj |-> [op |-> "plus", split |-> split, num_classes_ |-> nc,
                       categories |-> o.categories, img_ids |-> o.img_ids, imgs |-> o.imgs,
                       num_imgs |-> o.num_imgs, tiscape_dataset |-> o.ds]]

\* one round of the loop of tiscape_segmentation, for split_name
FactoryStep(st, split_name, nc) ==
    IF st.exc # "none" THEN st
    ELSE IF split_name \notin {"train", "val"}
         THEN [st EXCEPT !.exc = "AssertionError"]
    ELSE LET w == write_to_jsonfile(st.fs, split_name, dataset_split[split_name])
             c == PlusFromFile(TRUE, w.fs, split_name, nc)
         IN  IF w.exc # "none"
             THEN [st EXCEPT !.exc = w.exc, !.written = @ \cup {split_name}]
             ELSE [st EXCEPT !.fs = w.fs, !.written = @ \cup {split_name}, !.exc = c.exc,
                             ![split_name] = c.obj]

\* tiscape_segmentation(dataset_config, root, split, ...): the split argument is
\* replaced by ['train', 'val'] before the loop
tiscape_segmentation(dir, cfg, split) ==
    LET splits == <<"train", "val">>
        st0 == [fs |-> dir, exc |-> "none", written |-> {}, train |-> Unused, val |-> Unused]
        st1 == FactoryStep(st0, splits[1], ConfigNumClasses(cfg))
    IN  FactoryStep(st1, splits[2], ConfigNumClasses(cfg))

\* a call of the factory on a dataset root that holds annotations/<prefix>_sorted.json
\* (explored while no split file holds more than MaxDocs documents)
Factory(cfg, split) ==
    /\ pc = "root" /\ fs.annotations
    /\ \A name \in {"train", "val"} : Len(fs.files[name].docs) <= MaxDocs
    /\ LET st == tiscape_segmentation(fs.files, cfg, split)
       IN  /\ fs' = [fs EXCEPT !.files = st.fs]
           /\ ret' = [op |-> "factory", split |-> split, exc |-> st.exc,
                      train |-> IF st.exc = "none" THEN st.train ELSE Unused,
                      val |-> IF st.exc = "none" THEN st.val ELSE Unused]
           /\ hist' = [calls |-> Min(hist.calls + 1, 2),
                       written |-> hist.written \cup st.written,
                       after1 |-> IF hist.calls = 0 THEN st.fs ELSE hist.after1]
    /\ UNCHANGED <<dsVars, pc, fs0, colors>>

\* a call of the dataset constructor with a split name
ConstructSplit(split, nc) ==
    /\ pc = "root"
    /\ LET c == PlusFromFile(fs.annotations, fs.files, split, nc)
       IN  ret' = [op |-> "construct", split |-> split, exc |-> c.exc, obj |-> c.obj]
    /\ UNCHANGED <<dsVars, pc, hist, fs, fs0, colors>>

OldFiles == {Absent} \cup {File([i \in 1..n |-> "old"], r, w) : n \in 1..MaxDocs, r, w \in BOOLEAN}

InitFactory ==
    /\ tiscape_dataset = Unused /\ args = Unused /\ categories = <<>> /\ num_classes_ = 0
    /\ img_ids = <<>> /\ imgs = <<>> /\ num_imgs = 0 /\ colors = Unused
    /\ pc = "root" /\ ret = Unused
    /\ \E hasdir \in BOOLEAN :
         \E tr, va \in OldFiles, te \in {Absent, File(<<"old">>, TRUE, TRUE)} :
            /\ hasdir \/ (tr = Absent /\ va = Absent /\ te = Absent)
            /\ fs = [annotations |-> hasdir, files |-> [train |-> tr, val |-> va, test |-> te]]
    /\ fs0 = fs
    /\ hist = [calls |-> 0, written |-> {}, after1 |-> fs.files]

NextFactory ==
    \/ \E cfg \in {NoneArg, Some(2)}, split \in {"None", "train", "val", "test"} : Factory(cfg, split)
    \/ \E split \in {"train", "val", "test"} : ConstructSplit(split, NUM_CLASSES)

SpecFactory == InitFactory /\ [][NextFactory]_vars

\* every split file of the directory the factory started from is missing or a
\* readable file of one JSON document
SoundFiles ==
    \A name \in DOMAIN fs0.files :
        fs0.files[name].present => (fs0.files[name].r /\ Len(fs0.files[name].docs) = 1)

\* C3: a construction with a split name other than 'train' and 'val', through
\* the factory or the constructor, ends in an assertion failure and returns no
\* dataset (stated for a dataset root whose files are sound, and for a split
\* name that was given).
C3_UnknownSplitAsserts ==
    (ret.op \in {"factory", "construct"} /\ ret.split \notin {"train", "val", "None"}
       /\ fs0.annotations /\ SoundFiles) =>
        /\ ret.exc = "AssertionError"
        /\ ret.op = "factory" => (ret.train = Unused /\ ret.val = Unused)
        /\ ret.op = "construct" => ret.obj = Unused

\* C7: for each split file write_to_jsonfile was called on, a file that was
\* there before is unchanged, a file that was absent holds exactly one JSON
\* document, and the files after any number of factory calls are those after one.
C7_WriteOnlyIfAbsent ==
    hist.calls >= 1 =>
        /\ \A name \in hist.written :
             /\ fs0.files[name].present => fs.files[name] = fs0.files[name]
             /\ ~fs0.files[name].present =>
                    (fs.files[name].present /\ Len(fs.files[name].docs) = 1)
        /\ fs.files = hist.after1

=============================================================================
